---------------------------- MODULE Spec2Model ----------------------------
(***************************************************************************)
(* A model of mkdocstrings_handlers/typescript/handler.py: the identifier  *)
(* resolver (collect, get_docs_data, gen_tsdoc), the object model wrapper  *)
(* (Struct), the page renderer (render, get_summary, get_methods) and the  *)
(* class-bound cross-reference renderer (do_crossref).                     *)
(*                                                                         *)
(* Python values are tagged records [t |-> kind, v |-> payload].  A str is *)
(* a sequence of one-character strings, so that splitting and comparing    *)
(* are computed and not assumed.  A dict is the sequence of its items in   *)
(* insertion order, which is the order dict.items() iterates in.           *)
(***************************************************************************)
EXTENDS Integers, Sequences, FiniteSets, TLC

VARIABLES
    pc,          \* collect: "idle", "waiting" inside process.wait(), or
                 \* "returned" until the host has taken the result
    identifier,  \* collect: the identifier of the current or the last call
    package,     \* collect: local of line 57 while the call runs
    name,        \* collect: local of line 57 while the call runs
    proc,        \* the typedoc child process of the current or the last call
    file,        \* the contents of tsdoc/docs.json on disk
    result,      \* what the last collect call returned or raised
    popenCalls,  \* how many times subprocess.Popen was called
    colonCalls,  \* how many collect calls had a ':' in their identifier
    readAt,      \* the child's status when docs.json was last opened
    rdata,       \* render: argument data
    rconfig,     \* render: argument config
    html,        \* render: what the call returned or raised
    wdata,       \* Struct: the mapping given to the constructor
    wrapped,     \* Struct: the constructed object, or the exception raised
    path,        \* do_crossref: argument path
    brief,       \* do_crossref: argument brief
    markup       \* do_crossref: the Markup returned

vars == <<pc, identifier, package, name, proc, file, result, popenCalls,
          colonCalls, readAt, rdata, rconfig, html, wdata, wrapped, path,
          brief, markup>>

collectVars == <<pc, identifier, package, name, proc, file, result,
                 popenCalls, colonCalls, readAt>>
renderVars == <<rdata, rconfig, html>>
wrapVars == <<wdata, wrapped>>
crossrefVars == <<path, brief, markup>>

(***************************************************************************)
(* Bounds of the model.                                                    *)
(***************************************************************************)
MaxIdLen == 4        \* longest identifier given to collect
MaxChildren == 2     \* most top-level children of an extracted tree
MaxCalls == 2        \* most collect calls that reach the extractor

SeqsUpTo(S, n) == UNION {[1..k -> S] : k \in 0..n}

(***************************************************************************)
(* Python values.                                                          *)
(***************************************************************************)
Str(s) == [t |-> "str", v |-> s]
IntV(n) == [t |-> "int", v |-> n]
NoneV == [t |-> "None", v |-> 0]
List(xs) == [t |-> "list", v |-> xs]
Tuple(xs) == [t |-> "tuple", v |-> xs]
SetV(xs) == [t |-> "set", v |-> xs]
FrozenSet(xs) == [t |-> "frozenset", v |-> xs]
Item(k, x) == [k |-> k, x |-> x]
Dict(items) == [t |-> "dict", v |-> items]
Object(items) == [t |-> "Struct", v |-> items]
Raise(exc) == [t |-> "raise", v |-> exc]
EmptyDict == Dict(<<>>)

Keys(items) == {items[i].k : i \in DOMAIN items}
Lookup(items, key) == items[CHOOSE i \in DOMAIN items : items[i].k = key].x

\* setattr(self, key, x) on the instance __dict__ `items`
SetAttr(items, key, x) ==
    IF key \in Keys(items)
    THEN [i \in DOMAIN items |->
            IF items[i].k = key THEN Item(key, x) ELSE items[i]]
    ELSE Append(items, Item(key, x))

\* obj.key
GetAttr(obj, key) ==
    IF obj.t = "Struct" /\ key \in Keys(obj.v)
    THEN Lookup(obj.v, key)
    ELSE Raise("AttributeError")

(***************************************************************************)
(* class Struct.  self._wrap is looked up on the instance first: once a    *)
(* key named "_wrap" has been set on the instance, self._wrap is that      *)
(* value, and calling it raises TypeError.                                 *)
(***************************************************************************)
RECURSIVE Struct(_), Struct_wrap(_), StructItems(_, _), WrapAll(_)

\* [self._wrap(v) for v in value] over a sequence; the first exception wins
WrapAll(xs) ==
    IF xs = <<>> THEN List(<<>>)
    ELSE LET h == Struct_wrap(Head(xs))
         IN  IF h.t = "raise" THEN h
             ELSE LET r == WrapAll(Tail(xs))
                  IN  IF r.t = "raise" THEN r ELSE List(<<h>> \o r.v)

Struct_wrap(value) ==
    IF value.t \in {"tuple", "list"}
    THEN LET ws == WrapAll(value.v)
         IN  IF ws.t = "raise" THEN ws ELSE [t |-> value.t, v |-> ws.v]
    ELSE IF value.t \in {"set", "frozenset"}
    THEN LET ws == {Struct_wrap(x) : x \in value.v}
         IN  IF \E w \in ws : w.t = "raise"
             THEN CHOOSE w \in ws : w.t = "raise"
             ELSE [t |-> value.t, v |-> ws]
    ELSE IF value.t = "dict" THEN Struct(value) ELSE value

\* the loop of __init__: `done` is the instance __dict__ so far
StructItems(done, rest) ==
    IF rest = <<>> THEN Object(done)
    ELSE IF "_wrap" \in Keys(done) THEN Raise("TypeError")
    ELSE LET w == Struct_wrap(Head(rest).x)
         IN  IF w.t = "raise" THEN w
             ELSE StructItems(SetAttr(done, Head(rest).k, w), Tail(rest))

Struct(data) ==
    IF data.t # "dict" THEN Raise("AttributeError")
    ELSE StructItems(<<>>, data.v)

(***************************************************************************)
(* The identifier resolver.                                                *)
(***************************************************************************)
Alphabet == {":", ".", "A"}
Identifiers == SeqsUpTo(Alphabet, MaxIdLen)

\* ':' not in identifier
NoSeparator(id) == \A i \in DOMAIN id : id[i] # ":"

\* identifier.rsplit(':', 1): the split at the last ':'
SplitLast(id) ==
    LET i == CHOOSE j \in DOMAIN id :
                 id[j] = ":" /\ \A k \in (j + 1)..Len(id) : id[k] # ":"
    IN  <<SubSeq(id, 1, i - 1), SubSeq(id, i + 1, Len(id))>>

\* identifier.split(':', 1)
SplitFirst(id) ==
    LET i == CHOOSE j \in DOMAIN id :
                 id[j] = ":" /\ \A k \in 1..(j - 1) : id[k] # ":"
    IN  <<SubSeq(id, 1, i - 1), SubSeq(id, i + 1, Len(id))>>

\* next((item for item in json['children'] if item['name'] == name), None)
get_docs_data(json, nm) ==
    IF json.t # "dict" THEN Raise("TypeError")
    ELSE IF "children" \notin Keys(json.v) THEN Raise("KeyError")
    ELSE LET children == Lookup(json.v, "children").v
             hits == {i \in DOMAIN children :
                         Lookup(children[i].v, "name") = Str(nm)}
         IN  IF hits = {} THEN NoneV
             ELSE children[CHOOSE i \in hits : \A j \in hits : i <= j]

\* open(docs.json) and json.load(fp)
LoadFile(f) ==
    IF f.t = "absent" THEN Raise("FileNotFoundError")
    ELSE IF f.t = "garbage" THEN Raise("JSONDecodeError")
    ELSE f.v

\* lines 59-61 of collect, once gen_tsdoc's process.wait() has returned
CollectReturn(f, nm) ==
    LET json == LoadFile(f)
    IN  IF json.t = "raise" THEN json
        ELSE LET data == get_docs_data(json, nm)
             IN  IF data.t = "raise" THEN data ELSE Struct(data)

(***************************************************************************)
(* What the extractor can leave in docs.json.                              *)
(***************************************************************************)
\* line 178: the kind get_methods keeps (typedoc's ReflectionKind.Method);
\* 128, 256 and 1024 below are its Class, Interface and Property
KindMethod == 2048

Method(nm) == Dict(<<Item("name", Str(nm)), Item("kind", IntV(KindMethod))>>)
Property(nm) ==
    Dict(<<Item("name", Str(nm)), Item("kind", IntV(1024))>>)

\* a node built from {name, kind, children} only
ClassNode(nm) ==
    Dict(<<Item("name", Str(nm)), Item("kind", IntV(128)),
           Item("children", List(<<Method(<<"m">>)>>))>>)

\* a node built from {name, kind} only
InterfaceNode(nm) ==
    Dict(<<Item("name", Str(nm)), Item("kind", IntV(256))>>)

TopNodes == {ClassNode(<<"A">>), InterfaceNode(<<"A">>),
             InterfaceNode(<<"a">>), ClassNode(<<"A", ".", "A">>)}

Tree(children) == Dict(<<Item("children", List(children))>>)
\* the extractor emits each declaration once
Distinct(cs) == \A i, j \in DOMAIN cs : cs[i] = cs[j] => i = j
Trees ==
    {Tree(cs) : cs \in {c \in SeqsUpTo(TopNodes, MaxChildren) : Distinct(c)}}

Absent == [t |-> "absent", v |-> 0]
Garbage == [t |-> "garbage", v |-> 0]
Json(value) == [t |-> "json", v |-> value]
FileContents == {Absent, Garbage, Json(EmptyDict)} \cup {Json(tr) : tr \in Trees}

NoProc == [status |-> "none", exit |-> 0, wrote |-> FALSE]
Pending == [t |-> "pending", v |-> 0]

(***************************************************************************)
(* collect(identifier, config)                                             *)
(***************************************************************************)
CountSep(id) == IF \E i \in DOMAIN id : id[i] = ":" THEN 1 ELSE 0

\* as CollectNoSeparator, with `return None` for `return {}`
CollectNoSeparatorNone(id) ==
    /\ pc = "idle"
    /\ NoSeparator(id)
    /\ identifier' = id
    /\ result' = NoneV
    /\ colonCalls' = colonCalls + CountSep(id)
    /\ pc' = "returned"
    /\ UNCHANGED <<package, name, proc, file, popenCalls, readAt>>

\* lines 54-55: no separator, return {} at once
CollectNoSeparator(id) ==
    /\ pc = "idle"
    /\ NoSeparator(id)
    /\ identifier' = id
    /\ result' = EmptyDict
    /\ colonCalls' = colonCalls + CountSep(id)
    /\ pc' = "returned"
    /\ UNCHANGED <<package, name, proc, file, popenCalls, readAt>>

\* as CollectStart, with the tree of an earlier call kept: when docs.json
\* parses, no process is started and the call answers from it
CollectStartCached(id) ==
    /\ pc = "idle"
    /\ ~NoSeparator(id)
    /\ popenCalls < MaxCalls
    /\ identifier' = id
    /\ colonCalls' = colonCalls + CountSep(id)
    /\ IF file.t = "json"
       THEN /\ result' = CollectReturn(file, SplitFirst(id)[2])
            /\ pc' = "returned"
            /\ UNCHANGED <<package, name, proc, popenCalls, readAt>>
       ELSE /\ package' = SplitFirst(id)[1]
            /\ name' = SplitFirst(id)[2]
            /\ proc' = [status |-> "running", exit |-> 0, wrote |-> FALSE]
            /\ popenCalls' = popenCalls + 1
            /\ result' = Pending
            /\ readAt' = "none"
            /\ pc' = "waiting"
    /\ UNCHANGED file

\* lines 57-59 and 155-165: split, then gen_tsdoc starts npx typedoc
CollectStart(id) ==
    /\ pc = "idle"
    /\ ~NoSeparator(id)
    /\ popenCalls < MaxCalls
    /\ identifier' = id
    /\ package' = SplitFirst(id)[1]
    /\ name' = SplitFirst(id)[2]
    /\ proc' = [status |-> "running", exit |-> 0, wrote |-> FALSE]
    /\ popenCalls' = popenCalls + 1
    /\ colonCalls' = colonCalls + CountSep(id)
    /\ result' = Pending
    /\ readAt' = "none"
    /\ pc' = "waiting"
    /\ UNCHANGED file

\* lines 158-165: Popen itself raises (npx or the working directory missing)
CollectSpawnFails(id) ==
    /\ pc = "idle"
    /\ ~NoSeparator(id)
    /\ popenCalls < MaxCalls
    /\ identifier' = id
    /\ proc' = NoProc
    /\ popenCalls' = popenCalls + 1
    /\ colonCalls' = colonCalls + CountSep(id)
    /\ result' = Raise("FileNotFoundError")
    /\ readAt' = "none"
    /\ pc' = "returned"
    /\ UNCHANGED <<package, name, file>>

\* the child process ends: any exit status, and docs.json left as it was,
\* overwritten with a tree, or overwritten with something unparsable
ProcessExit ==
    /\ proc.status = "running"
    /\ \E code \in {0, 1} :
          \/ /\ proc' = [status |-> "exited", exit |-> code, wrote |-> FALSE]
             /\ file' \in {file, Garbage}
          \/ /\ proc' = [status |-> "exited", exit |-> code, wrote |-> TRUE]
             /\ file' \in {Json(tr) : tr \in Trees} \cup {Json(EmptyDict)}
    /\ UNCHANGED <<pc, identifier, package, name, result, popenCalls,
                   colonCalls, readAt>>

\* line 166
ProcessWaited == proc.status = "exited"

\* lines 166-169, 152 and 61: wait returns, docs.json is read, the search
\* runs and the hit is wrapped
CollectFinish ==
    /\ pc = "waiting"
    /\ ProcessWaited
    /\ readAt' = proc.status
    /\ result' = CollectReturn(file, name)
    /\ pc' = "returned"
    /\ package' = <<>>
    /\ name' = <<>>
    /\ UNCHANGED <<identifier, proc, file, popenCalls, colonCalls>>

\* the host takes what collect returned or raised; the call's frame is gone
HostTakesResult ==
    /\ pc = "returned"
    /\ pc' = "idle"
    /\ identifier' = <<>>
    /\ proc' = NoProc
    /\ result' = Pending
    /\ readAt' = "none"
    /\ UNCHANGED <<package, name, file, popenCalls, colonCalls>>


(***************************************************************************)
(* render(data, config)                                                    *)
(***************************************************************************)
MaxFragments == 2    \* most text fragments of a comment summary

\* lines 38-42
default_config ==
    [show_root_heading |-> FALSE, show_root_toc_entry |-> TRUE,
     heading_level |-> 2]

\* {**config, **self.default_config}: the defaults win
final_config_defaults_win(config) ==
    [k \in DOMAIN default_config \cup DOMAIN config |->
        IF k \in DOMAIN default_config THEN default_config[k] ELSE config[k]]

\* line 64: {**self.default_config, **config}
final_config(config) ==
    [k \in DOMAIN default_config \cup DOMAIN config |->
        IF k \in DOMAIN config THEN config[k] ELSE default_config[k]]

RECURSIVE JoinTexts(_)
\* ''.join([summary.text for summary in fragments])
JoinTexts(fragments) ==
    IF fragments = <<>> THEN Str(<<>>)
    ELSE LET text == GetAttr(Head(fragments), "text")
         IN  IF text.t = "raise" THEN text
             ELSE LET rest == JoinTexts(Tail(fragments))
                  IN  IF rest.t = "raise" THEN rest
                      ELSE IF text.t # "str" THEN Raise("TypeError")
                      ELSE Str(text.v \o rest.v)

\* lines 172-175
get_summary(data) ==
    LET comment == GetAttr(data, "comment")
    IN  IF comment.t = "raise" THEN comment
        ELSE LET summary == GetAttr(comment, "summary")
             IN  IF summary.t = "raise" THEN summary
                 ELSE IF summary.t \notin {"list", "tuple"}
                 THEN Raise("TypeError")
                 ELSE JoinTexts(summary.v)

RECURSIVE KeepMethods(_)
\* [m for m in members if m.kind == 2048]
KeepMethods(members) ==
    IF members = <<>> THEN List(<<>>)
    ELSE LET kind == GetAttr(Head(members), "kind")
         IN  IF kind.t = "raise" THEN kind
             ELSE LET rest == KeepMethods(Tail(members))
                  IN  IF rest.t = "raise" THEN rest
                      ELSE IF kind = IntV(KindMethod)
                      THEN List(<<Head(members)>> \o rest.v)
                      ELSE rest

\* lines 177-178
get_methods(data) ==
    LET children == GetAttr(data, "children")
    IN  IF children.t = "raise" THEN children
        ELSE IF children.t \notin {"list", "tuple"} THEN Raise("TypeError")
        ELSE KeepMethods(children.v)

\* lines 63-78: the returned markup is the template applied to its context,
\* kept here as that context
render(data, config) ==
    LET summary == get_summary(data)
        methods == get_methods(data)
    IN  IF summary.t = "raise" THEN summary
        ELSE IF methods.t = "raise" THEN methods
        ELSE [t |-> "html",
              v |-> [config |-> final_config(config),
                     class |-> data,
                     summary |-> summary,
                     heading_level |-> final_config(config)["heading_level"],
                     root |-> TRUE,
                     methods |-> methods]]

\* configurations a caller can give: any subset of the keys, and a key the
\* handler does not know
ConfigKeys ==
    {"show_root_heading", "show_root_toc_entry", "heading_level",
     "show_source"}
Configs ==
    {[k \in ks |-> full[k]] :
        ks \in SUBSET ConfigKeys,
        full \in [show_root_heading : {TRUE}, show_root_toc_entry : {FALSE},
                  heading_level : {1, 3}, show_source : {FALSE}]}

Fragment(s) == Dict(<<Item("kind", Str(<<"t">>)), Item("text", Str(s))>>)
Comment(fragments) == Dict(<<Item("summary", List(fragments))>>)
Summaries ==
    {[i \in DOMAIN texts |-> Fragment(texts[i])] :
        texts \in SeqsUpTo({<<"x">>, <<"y", "z">>}, MaxFragments)}
Members ==
    {<<>>, <<Method(<<"r">>)>>, <<Property(<<"p">>), Method(<<"r">>)>>}

\* the nodes an extracted tree can hold: with or without a doc comment, with
\* or without children
DocNodes ==
    LET base == <<Item("name", Str(<<"B">>)), Item("kind", IntV(128))>>
    IN  {Dict(base)}
        \cup {Dict(base \o <<Item("children", List(ms))>>) : ms \in Members}
        \cup {Dict(base \o <<Item("comment", Comment(fs))>>) : fs \in Summaries}
        \cup {Dict(base \o <<Item("comment", Comment(fs)),
                             Item("children", List(ms))>>) :
                 fs \in Summaries, ms \in Members}

\* what collect hands to the host: {} or a wrapped node
RenderData == {EmptyDict} \cup {Struct(n) : n \in DocNodes}

Render ==
    /\ html = Pending
    /\ html' = render(rdata, rconfig)
    /\ UNCHANGED <<rdata, rconfig>>

(***************************************************************************)
(* Struct(data) on its own: the inputs are nested values built from        *)
(* string-keyed mappings, lists, tuples, sets, frozensets and scalars.     *)
(***************************************************************************)
MaxItems == 2        \* most items of a list, a tuple or a mapping

Scalars == {IntV(1), Str(<<"x">>), NoneV}
\* what a set can hold: hashable values only
Hashables == Scalars \cup {Tuple(<<IntV(1)>>)}
WrapKeys == {"a", "_wrap"}

ListsOf(S) == {List(xs) : xs \in SeqsUpTo(S, MaxItems)}
TuplesOf(S) == {Tuple(xs) : xs \in SeqsUpTo(S, MaxItems)}
SetsOf(S) == {SetV(X) : X \in SUBSET S} \cup {FrozenSet(X) : X \in SUBSET S}
KeySeqs(n) ==
    {ks \in [1..n -> WrapKeys] : \A i, j \in 1..n : ks[i] = ks[j] => i = j}
MakeDict(ks, xs) == Dict([i \in DOMAIN ks |-> Item(ks[i], xs[i])])
DictsOf(S) ==
    UNION {{MakeDict(ks, xs) : ks \in KeySeqs(n), xs \in [1..n -> S]} :
              n \in 0..MaxItems}

Nested ==
    Scalars \cup ListsOf(Scalars) \cup TuplesOf(Scalars) \cup SetsOf(Hashables)
    \cup DictsOf(Scalars) \cup {List(<<d>>) : d \in DictsOf(Scalars)}

Wrap ==
    /\ wrapped = Pending
    /\ wrapped' = Struct(wdata)
    /\ UNCHANGED wdata

(***************************************************************************)
(* TypescriptHandler.do_crossref(path, brief).  A Markup is the sequence   *)
(* of its pieces: the literal parts of the format string, and one piece    *)
(* per character of an escaped argument.                                   *)
(***************************************************************************)
MaxPathLen == 3      \* longest path given to do_crossref

PathAlphabet == {"a", "C", ".", "<"}
Paths == SeqsUpTo(PathAlphabet, MaxPathLen)

\* markupsafe.escape, character by character
EscapeChar(c) ==
    CASE c = "&" -> "&amp;"
      [] c = "<" -> "&lt;"
      [] c = ">" -> "&gt;"
      [] c = "'" -> "&#39;"
      [] c = "\"" -> "&#34;"
      [] OTHER -> c
Escape(s) == [i \in DOMAIN s |-> EscapeChar(s[i])]

\* full_path.split(".")[0]
FirstSegment(p) ==
    LET dots == {i \in DOMAIN p : p[i] = "."}
    IN  IF dots = {} THEN p
        ELSE SubSeq(p, 1, (CHOOSE i \in dots : \A j \in dots : i <= j) - 1)

\* line 106: full_path.split(".")[-1]
LastSegment(p) ==
    LET dots == {i \in DOMAIN p : p[i] = "."}
    IN  IF dots = {} THEN p
        ELSE SubSeq(p, (CHOOSE i \in dots : \A j \in dots : j <= i) + 1, Len(p))

\* lines 104-109
do_crossref(p, b) ==
    LET full_path == p
        label == IF b THEN LastSegment(full_path) ELSE p
    IN  [t |-> "Markup",
         v |-> <<"<span data-autorefs-optional-hover=">> \o Escape(full_path)
               \o <<">">> \o Escape(label) \o <<"</span>">>]

Crossref ==
    /\ markup = Pending
    /\ markup' = do_crossref(path, brief)
    /\ UNCHANGED <<path, brief>>

(***************************************************************************)
(* Specifications.                                                         *)
(***************************************************************************)
CollectIdle ==
    /\ pc = "idle"
    /\ identifier = <<>>
    /\ package = <<>>
    /\ name = <<>>
    /\ proc = NoProc
    /\ result = Pending
    /\ popenCalls = 0
    /\ colonCalls = 0
    /\ readAt = "none"
RenderIdle == rdata = NoneV /\ rconfig = <<>> /\ html = Pending
WrapIdle == wdata = NoneV /\ wrapped = Pending
CrossrefIdle == path = <<>> /\ brief = FALSE /\ markup = Pending

\* the handler as the host drives it; docs.json may be there from an
\* earlier build
Init ==
    /\ CollectIdle
    /\ file \in FileContents
    /\ RenderIdle /\ WrapIdle /\ CrossrefIdle

Next ==
    \/ /\ \E id \in Identifiers : CollectNoSeparator(id)
       /\ UNCHANGED <<renderVars, wrapVars, crossrefVars>>
    \/ /\ \E id \in Identifiers : CollectStart(id)
       /\ UNCHANGED <<renderVars, wrapVars, crossrefVars>>
    \/ /\ \E id \in Identifiers : CollectSpawnFails(id)
       /\ UNCHANGED <<renderVars, wrapVars, crossrefVars>>
    \/ /\ ProcessExit
       /\ UNCHANGED <<renderVars, wrapVars, crossrefVars>>
    \/ /\ CollectFinish
       /\ UNCHANGED <<renderVars, wrapVars, crossrefVars>>
    \/ /\ HostTakesResult
       /\ UNCHANGED <<renderVars, wrapVars, crossrefVars>>

Spec == Init /\ [][Next]_vars

\* render applied to every value collect can hand over and every config
InitRender ==
    /\ CollectIdle /\ file = Absent
    /\ rdata \in RenderData /\ rconfig \in Configs /\ html = Pending
    /\ WrapIdle /\ CrossrefIdle
NextRender == Render /\ UNCHANGED <<collectVars, wrapVars, crossrefVars>>
SpecRender == InitRender /\ [][NextRender]_vars

\* Struct applied to every input
InitWrap ==
    /\ CollectIdle /\ file = Absent
    /\ RenderIdle /\ CrossrefIdle
    /\ \E n \in 0..MaxItems : \E ks \in KeySeqs(n), xs \in [1..n -> Nested] :
          wdata = MakeDict(ks, xs)
    /\ wrapped = Pending
NextWrap == Wrap /\ UNCHANGED <<collectVars, renderVars, crossrefVars>>
SpecWrap == InitWrap /\ [][NextWrap]_vars

\* do_crossref applied to every path, brief or not
InitCrossref ==
    /\ CollectIdle /\ file = Absent
    /\ RenderIdle /\ WrapIdle
    /\ path \in Paths /\ brief \in BOOLEAN /\ markup = Pending
NextCrossref == Crossref /\ UNCHANGED <<collectVars, renderVars, wrapVars>>
SpecCrossref == InitCrossref /\ [][NextCrossref]_vars

(***************************************************************************)
(* What the properties read.                                               *)
(***************************************************************************)
HasColon(id) == \E i \in DOMAIN id : id[i] = ":"

\* the whole text after the first ':' of an identifier that has one
SymbolOf(id) ==
    CHOOSE nm \in {SubSeq(id, k, Len(id)) : k \in 1..(Len(id) + 1)} :
        \E pkg \in {SubSeq(id, 1, k) : k \in 0..Len(id)} :
            ~HasColon(pkg) /\ id = pkg \o <<":">> \o nm

\* the top-level children of the tree in docs.json
TopChildren == Lookup(file.v.v, "children").v
HasTree == file.t = "json" /\ "children" \in Keys(file.v.v)
NameOf(node) == Lookup(node.v, "name")

RECURSIVE ReadBack(_)
\* every field of a wrapped value read back, a Struct through its attributes
ReadBack(x) ==
    IF x.t = "Struct"
    THEN Dict([i \in DOMAIN x.v |-> Item(x.v[i].k, ReadBack(x.v[i].x))])
    ELSE IF x.t \in {"list", "tuple"}
    THEN [t |-> x.t, v |-> [i \in DOMAIN x.v |-> ReadBack(x.v[i])]]
    ELSE IF x.t \in {"set", "frozenset"}
    THEN [t |-> x.t, v |-> {ReadBack(y) : y \in x.v}]
    ELSE x

RECURSIVE HasDict(_)
\* a mapping left as a dict somewhere inside a value
HasDict(x) ==
    IF x.t = "dict" THEN TRUE
    ELSE IF x.t = "Struct" THEN \E i \in DOMAIN x.v : HasDict(x.v[i].x)
    ELSE IF x.t \in {"list", "tuple"} THEN \E i \in DOMAIN x.v : HasDict(x.v[i])
    ELSE IF x.t \in {"set", "frozenset"} THEN \E y \in x.v : HasDict(y)
    ELSE FALSE

\* the extraction of the call that has just returned failed: Popen raised,
\* or the process exited non-zero, or it wrote no tree
ExtractionFailed ==
    \/ proc.status = "none"
    \/ proc.status = "exited" /\ (proc.exit # 0 \/ ~proc.wrote)

(***************************************************************************)
(* C1: for every identifier that contains no ':', collect returns the      *)
(* empty result {} (it does not raise), and no extraction was started or   *)
(* read for that call.                                                     *)
(***************************************************************************)
C1_NoSeparatorReturnsEmpty ==
    (pc = "returned" /\ ~HasColon(identifier)) =>
        /\ result = EmptyDict
        /\ proc.status = "none"
        /\ readAt = "none"

C1_Witness ==
    /\ pc = "returned"
    /\ identifier = <<"A", ".", "A">>
    /\ result = EmptyDict
    /\ popenCalls = 1

(***************************************************************************)
(* C2: for an identifier with a ':', the symbol looked up is the whole     *)
(* text after the first ':'.  When the tree read from docs.json has a      *)
(* top-level child of exactly that name, collect returns the first such    *)
(* child, wrapped; and a node collect returns always has that name, so     *)
(* ":A.A" resolves against "A.A" and never against "A".                    *)
(***************************************************************************)
C2_FirstExactMatchAfterFirstColon ==
    (pc = "returned" /\ HasColon(identifier) /\ readAt = "exited" /\ HasTree)
    => LET nm == SymbolOf(identifier)
           cs == TopChildren
       IN  /\ \A i \in DOMAIN cs :
                  (/\ NameOf(cs[i]) = Str(nm)
                   /\ \A j \in 1..(i - 1) : NameOf(cs[j]) # Str(nm))
                  => /\ result.t = "Struct"
                     /\ ~HasDict(result)
                     /\ ReadBack(result) = cs[i]
           /\ result.t = "Struct" => GetAttr(result, "name") = Str(nm)

C2_Witness ==
    /\ pc = "returned"
    /\ identifier = <<":", "A", ".", "A">>
    /\ file = Json(Tree(<<ClassNode(<<"A">>), ClassNode(<<"A", ".", "A">>)>>))
    /\ result.t = "Struct"
    /\ GetAttr(result, "name") = Str(<<"A", ".", "A">>)

(***************************************************************************)
(* C3: when the extraction succeeded and no top-level child of the         *)
(* extracted tree has the requested name, collect returns the empty        *)
(* result and does not raise.                                              *)
(***************************************************************************)
C3_MissReturnsEmpty ==
    (/\ pc = "returned" /\ HasColon(identifier) /\ readAt = "exited"
     /\ ~ExtractionFailed /\ HasTree
     /\ \A i \in DOMAIN TopChildren :
            NameOf(TopChildren[i]) # Str(SymbolOf(identifier)))
    => result = EmptyDict

(***************************************************************************)
(* C4: when the extraction of a call failed, the call ends by raising: it  *)
(* returns neither a node nor the empty result, even if docs.json is still *)
(* there from an earlier extraction.                                       *)
(***************************************************************************)
C4_FailedExtractionRaises ==
    (pc = "returned" /\ HasColon(identifier) /\ ExtractionFailed)
    => result.t = "raise"

C5_RenderEmptySucceeds ==
    (html # Pending /\ rdata = EmptyDict) => html.t = "html"

RECURSIVE TextsOf(_)
TextsOf(fragments) ==
    IF fragments = <<>> THEN <<>>
    ELSE Lookup(Head(fragments).v, "text").v \o TextsOf(Tail(fragments))

\* the summary the specification asks for: the fragments' text in order,
\* and the empty string for a node without a comment
ExpectedSummary(node) ==
    IF "comment" \notin Keys(node.v) THEN Str(<<>>)
    ELSE Str(TextsOf(Lookup(Lookup(node.v, "comment").v, "summary").v))

(***************************************************************************)
(* C6: for a node that has children, the summary render gives the template *)
(* is the concatenation, in order, of the text of the comment's summary    *)
(* fragments, and the empty string when the node has no comment.           *)
(***************************************************************************)
C6_SummaryConcatOrEmpty ==
    (html # Pending /\ rdata.t = "Struct" /\ "children" \in Keys(rdata.v))
    => /\ html.t = "html"
       /\ html.v.summary = ExpectedSummary(rdata)

C8_WrapRoundTrip ==
    wrapped # Pending =>
        /\ wrapped.t = "Struct"
        /\ ~HasDict(wrapped)
        /\ ReadBack(wrapped) = wdata

\* markupsafe's escapes read back, as an HTML parser reads them
UnescapeChar(c) ==
    CASE c = "&amp;" -> "&"
      [] c = "&lt;" -> "<"
      [] c = "&gt;" -> ">"
      [] c = "&#39;" -> "'"
      [] c = "&#34;" -> "\""
      [] OTHER -> c
Unescape(s) == [i \in DOMAIN s |-> UnescapeChar(s[i])]

\* where the opening tag of the span ends
TagEnd == CHOOSE i \in DOMAIN markup.v :
              markup.v[i] = ">" /\ \A j \in 1..(i - 1) : markup.v[j] # ">"
HoverKey == Unescape(SubSeq(markup.v, 2, TagEnd - 1))
VisibleLabel == Unescape(SubSeq(markup.v, TagEnd + 1, Len(markup.v) - 1))

(***************************************************************************)
(* C9: the span do_crossref returns carries the full path as its hover     *)
(* key whatever brief is; with brief the visible label is what follows the *)
(* last '.' of the path (the whole path when it has none), without brief   *)
(* it is the full path.                                                    *)
(***************************************************************************)
C9_CrossrefKeyAndLabel ==
    markup.t = "Markup" =>
        /\ markup.v[1] = "<span data-autorefs-optional-hover="
        /\ markup.v[Len(markup.v)] = "</span>"
        /\ HoverKey = path
        /\ IF brief
           THEN /\ \A i \in DOMAIN VisibleLabel : VisibleLabel[i] # "."
                /\ \E k \in 0..Len(path) :
                      /\ k > 0 => path[k] = "."
                      /\ VisibleLabel = SubSeq(path, k + 1, Len(path))
           ELSE VisibleLabel = path

C9_Witness ==
    /\ markup.t = "Markup"
    /\ path = <<"a", ".", "C">>
    /\ brief
    /\ HoverKey = <<"a", ".", "C">>
    /\ VisibleLabel = <<"C">>

=============================================================================
